---- MODULE Spec2Model ----
(***************************************************************************)
(* Model of the JSONL streaming parser of cc-aqt-master                    *)
(* (src/src/utils/jsonl.ts): the async generator streamJsonl, the line     *)
(* parser parseJsonlLine it calls, and the streams it opens.               *)
(*                                                                         *)
(* A file is a sequence of lines.  A line is a record [pad, text]: `pad`   *)
(* is the amount of surrounding whitespace String.prototype.trim removes,  *)
(* `text` is what is left after trimming.  JSON.parse is modelled by what  *)
(* it returns (or throws) on each text.                                    *)
(***************************************************************************)
EXTENDS Integers, Sequences, FiniteSets, TLC

\* ------------------------------------------------------------------ bounds
\* The longest file, in lines.
MaxLines == 2

\* ------------------------------------------------------------------ values
Undefined == "undefined"

\* The value of a JS expression after JSON.parse: `kind` tells null, a
\* primitive and an object apart, `type` is the value's .type property
\* (Undefined when the property is absent, as it is on every primitive).
Value(kind, type) == [kind |-> kind, type |-> type]

SyntaxError == Value("SyntaxError", Undefined)
JsNull == Value("null", Undefined)

\* The trimmed texts a line can hold.
Texts ==
    { "", "#c", "{bad", "null", "42",
      "{\"type\":\"user\"}", "{\"type\":\"assistant\"}", "{\"k\":1}" }

Line(pad, text) == [pad |-> pad, text |-> text]

\* The lines of the model: every text unpadded, the line of whitespace only
\* and the comment with whitespace around it.
Lines ==
    { Line(0, t) : t \in Texts } \cup { Line(1, ""), Line(1, "#c") }

\* String.prototype.trim
Trim(line) == line.text

\* String.prototype.startsWith('#') on a trimmed text
StartsWithHash(text) == text = "#c"

\* JSON.parse: the value of the text, or SyntaxError when it throws.
JSONParse(text) ==
    CASE text = "null" -> JsNull
      [] text = "42" -> Value("number", Undefined)
      [] text = "{\"type\":\"user\"}" -> Value("object", "user")
      [] text = "{\"type\":\"assistant\"}" -> Value("object", "assistant")
      [] text = "{\"k\":1}" -> Value("object", Undefined)
      [] text = "{\"type\":\"assistant\",\"usage\":{\"input_tokens\":100,\"output_tokens\":50}}" ->
            [ kind |-> "object", type |-> "assistant",
              usage |-> [ input_tokens |-> 100, output_tokens |-> 50 ] ]
      [] text = "{\"usage\":{\"input_tokens\":200,\"output_tokens\":100,\"cache_read_input_tokens\":50}}" ->
            [ kind |-> "object", type |-> Undefined,
              usage |-> [ input_tokens |-> 200, output_tokens |-> 100,
                          cache_read_input_tokens |-> 50 ] ]
      [] OTHER -> SyntaxError

\* Buffer.byteLength of a line with its terminator.
ByteLength(line) == (2 * line.pad) + Len(line.text) + 1

RECURSIVE SumBytes(_)
SumBytes(ls) == IF ls = <<>> THEN 0 ELSE ByteLength(Head(ls)) + SumBytes(Tail(ls))

\* ----------------------------------------------------------------- options
\* JSONLParserOptions after the merge with DEFAULT_OPTIONS: the callbacks
\* are modelled by whether they are supplied, filterTypes by its members
\* (absent and empty are both the empty set).
FilterChoices == { {}, {"assistant"} }

Options ==
    [ skipMalformed : BOOLEAN, onError : BOOLEAN, onProgress : BOOLEAN,
      filterTypes : FilterChoices ]

\* File paths, as their dot-separated segments.
Paths == { <<"log", "jsonl">>, <<"log", "jsonl", "gz">> }

Files == UNION { [1..n -> Lines] : n \in 0..MaxLines }

\* ------------------------------------------------------------------- state
VARIABLES
    filePath,       \* the path streamJsonl was called with
    disk,           \* what is stored at that path
    file,           \* the lines the input stream delivers
    diskSize,       \* the size of the file on disk, in bytes
    opts,           \* the merged options
    pc,             \* "loop", "yield", "done", "returned", "thrown"
    lineNumber, parsedLines, skippedLines, bytesRead,
    delivered,      \* lines the input stream has emitted so far
    ended,          \* the input stream has emitted 'end'
    fileStream,     \* the fs.ReadStream: "open" or "closed"
    gunzip,         \* the zlib.Gunzip: "none", "open" or "closed"
    rl,             \* the readline interface: "open" or "closed"
    yielded,        \* the records handed to the consumer, with their line
    errors,         \* the ParseErrors passed to onError
    completeCalls,  \* the onProgress invocations with bytesRead = totalBytes
    lastProgress,   \* bytesRead of the latest onProgress invocation, or -1
    stats,          \* the ParserStats returned, or NoStats
    fn,             \* the aggregation function called, or "none"
    entries,        \* its RawLogEntry[] argument
    args,           \* its numeric arguments (calculateCost)
    cursor,         \* the entries its loop has taken
    acc,            \* its locals
    result          \* its return value, or NoResult

streamVars ==
    << filePath, disk, file, diskSize, opts, pc, lineNumber, parsedLines,
       skippedLines, bytesRead, delivered, ended, fileStream, gunzip, rl,
       yielded, errors, completeCalls, lastProgress, stats >>

streamVarsButPc ==
    << filePath, disk, file, diskSize, opts, lineNumber, parsedLines,
       skippedLines, bytesRead, delivered, ended, fileStream, gunzip, rl,
       yielded, errors, completeCalls, lastProgress, stats >>

aggVars == << fn, entries, args, cursor, acc, result >>

vars == << streamVars, aggVars >>

NoResult == [ status |-> "pending" ]

\* No aggregation function is called.
AggIdle ==
    /\ fn = "none" /\ entries = <<>> /\ args = <<>> /\ cursor = 0
    /\ acc = <<>> /\ result = NoResult

NoStats == [ totalLines |-> -1, parsedLines |-> -1, skippedLines |-> -1,
             bytesProcessed |-> -1 ]

\* ------------------------------------------------------------ the functions
\* parseJsonlLine reporting the 0-based index of the line.
parseJsonlLine_ZeroBased(line, n, onError) ==
    LET trimmed == Trim(line) IN
    IF trimmed = "" \/ StartsWithHash(trimmed)
    THEN [ value |-> JsNull, errors |-> <<>> ]
    ELSE LET v == JSONParse(trimmed) IN
         IF v = SyntaxError
         THEN [ value |-> JsNull,
                errors |-> IF onError
                           THEN << [ lineNumber |-> n - 1, raw |-> trimmed ] >>
                           ELSE <<>> ]
         ELSE [ value |-> v, errors |-> <<>> ]

\* parseJsonlLine without the test for a leading '#'.
parseJsonlLine_NoCommentCheck(line, n, onError) ==
    LET trimmed == Trim(line) IN
    IF trimmed = ""
    THEN [ value |-> JsNull, errors |-> <<>> ]
    ELSE LET v == JSONParse(trimmed) IN
         IF v = SyntaxError
         THEN [ value |-> JsNull,
                errors |-> IF onError
                           THEN << [ lineNumber |-> n, raw |-> trimmed ] >>
                           ELSE <<>> ]
         ELSE [ value |-> v, errors |-> <<>> ]

\* parseJsonlLine: the value returned (JsNull for "return null") and the
\* ParseErrors handed to onError on the way.
parseJsonlLine(line, n, onError) ==
    LET trimmed == Trim(line) IN
    IF trimmed = "" \/ StartsWithHash(trimmed)
    THEN [ value |-> JsNull, errors |-> <<>> ]
    ELSE LET v == JSONParse(trimmed) IN
         IF v = SyntaxError
         THEN [ value |-> JsNull,
                errors |-> IF onError
                           THEN << [ lineNumber |-> n, raw |-> trimmed ] >>
                           ELSE <<>> ]
         ELSE [ value |-> v, errors |-> <<>> ]

isGzipFile_GzipOnly(path) == path[Len(path)] = "gzip"

isGzipFile(path) == path[Len(path)] \in { "gz", "gzip" }

\* What is stored at `path` for the log content `content`: a file whose name
\* ends in gz or gzip holds the gzip compression of the content.
Stored(path, content) ==
    [ gzip |-> path[Len(path)] \in { "gz", "gzip" }, content |-> content ]

\* The lines readline finds in the bytes of a gzip member read as text:
\* binary data, no JSON.
CompressedAsText == << Line(0, "{bad") >>

\* createInputStream: the lines of the stream it returns.  A gunzip fed
\* with data that is not gzip emits 'error' before any data.
createInputStream(path, d) ==
    IF isGzipFile(path)
    THEN IF d.gzip THEN d.content ELSE <<>>
    ELSE IF d.gzip THEN CompressedAsText ELSE d.content

\* getFileSize: statSync(filePath).size
getFileSize(size) == size

\* The sizes a gzip file of `raw` bytes of content can have on disk: equal
\* to the content's size or not (a gzip file is never empty).
GzipSizes(raw) == { n \in { raw, raw + 1 } : n > 0 }

\* `if (line.trim())` of the loop: the line counts as skipped.
CountsAsSkipped(line) == Trim(line) # ""

\* The type filter of the loop: TRUE when the entry is dropped.
FilteredOut(entry, filterTypes) ==
    /\ filterTypes # {}
    /\ entry.type # Undefined
    /\ entry.type \notin filterTypes

\* The generator's locals the loop body reads and writes.
Locals ==
    [ lineNumber |-> lineNumber, parsedLines |-> parsedLines,
      skippedLines |-> skippedLines, yielded |-> yielded, errors |-> errors ]

\* The loop body handing each parsed record to the consumer twice.
LoopBody_YieldTwice(loc, line, o) ==
    LET n == loc.lineNumber + 1
        r == parseJsonlLine(line, n, o.onError)
        rec == [ line |-> n, data |-> r.value ]
        seen == [ loc EXCEPT !.lineNumber = n,
                             !.errors = loc.errors \o r.errors ]
    IN  IF r.value = JsNull
        THEN [ loc |-> [ seen EXCEPT !.skippedLines =
                            IF Trim(line) # "" THEN @ + 1 ELSE @ ],
               yields |-> FALSE ]
        ELSE IF FilteredOut(r.value, o.filterTypes)
        THEN [ loc |-> seen, yields |-> FALSE ]
        ELSE [ loc |-> [ seen EXCEPT !.parsedLines = @ + 1,
                                     !.yielded = @ \o << rec, rec >> ],
               yields |-> TRUE ]

\* The loop body counting a skipped line only when onError is supplied.
LoopBody_CountsWithCallback(loc, line, o) ==
    LET n == loc.lineNumber + 1
        r == parseJsonlLine(line, n, o.onError)
        seen == [ loc EXCEPT !.lineNumber = n,
                             !.errors = loc.errors \o r.errors ]
    IN  IF r.value = JsNull
        THEN [ loc |-> [ seen EXCEPT !.skippedLines =
                            IF o.onError /\ Trim(line) # "" THEN @ + 1 ELSE @ ],
               yields |-> FALSE ]
        ELSE IF FilteredOut(r.value, o.filterTypes)
        THEN [ loc |-> seen, yields |-> FALSE ]
        ELSE [ loc |-> [ seen EXCEPT !.parsedLines = @ + 1,
                                     !.yielded = Append(@, [ line |-> n, data |-> r.value ]) ],
               yields |-> TRUE ]

\* One iteration of `for await (const line of rl)`: the locals after it and
\* whether it ends at the `yield`.
LoopBody(loc, line, o) ==
    LET n == loc.lineNumber + 1
        r == parseJsonlLine(line, n, o.onError)
        seen == [ loc EXCEPT !.lineNumber = n,
                             !.errors = loc.errors \o r.errors ]
    IN  IF r.value = JsNull
        THEN [ loc |-> [ seen EXCEPT !.skippedLines =
                            IF CountsAsSkipped(line) THEN @ + 1 ELSE @ ],
               yields |-> FALSE ]
        ELSE IF FilteredOut(r.value, o.filterTypes)
        THEN [ loc |-> seen, yields |-> FALSE ]
        ELSE [ loc |-> [ seen EXCEPT !.parsedLines = @ + 1,
                                     !.yielded = Append(@, [ line |-> n, data |-> r.value ]) ],
               yields |-> TRUE ]

\* The generator's locals before the first line.
InitialLocals ==
    [ lineNumber |-> 0, parsedLines |-> 0, skippedLines |-> 0,
      yielded |-> <<>>, errors |-> <<>> ]

\* The locals after the loop has run over `lines`, every record consumed.
RECURSIVE Drain(_, _, _)
Drain(loc, lines, o) ==
    IF lines = <<>> THEN loc
    ELSE Drain(LoopBody(loc, Head(lines), o).loc, Tail(lines), o)

\* streamJsonlWithMeta: one iteration of its loop.  Reading .type of null
\* for the filter throws a TypeError inside the try, which the catch handles
\* like a parse error; with skipMalformed false the catch rethrows.
MetaLoopBody(loc, line, o) ==
    LET n == loc.lineNumber + 1
        trimmed == Trim(line)
        seen == [ loc EXCEPT !.lineNumber = n ]
        v == JSONParse(trimmed)
        caught == [ seen EXCEPT
                      !.errors = IF o.onError
                                 THEN Append(@, [ lineNumber |-> n, raw |-> trimmed ])
                                 ELSE @,
                      !.thrown = ~o.skipMalformed ]
    IN  IF trimmed = "" \/ StartsWithHash(trimmed) THEN seen
        ELSE IF v = SyntaxError THEN caught
        ELSE IF o.filterTypes # {} /\ v = JsNull THEN caught
        ELSE IF FilteredOut(v, o.filterTypes) THEN seen
        ELSE [ seen EXCEPT !.yielded =
                  Append(@, [ data |-> v, lineNumber |-> n, raw |-> trimmed ]) ]

InitialMetaLocals ==
    [ lineNumber |-> 0, yielded |-> <<>>, errors |-> <<>>, thrown |-> FALSE ]

\* streamJsonlWithMeta run over `lines`, every item consumed.
RECURSIVE DrainMeta(_, _, _)
DrainMeta(loc, lines, o) ==
    IF lines = <<>> \/ loc.thrown THEN loc
    ELSE DrainMeta(MetaLoopBody(loc, Head(lines), o), Tail(lines), o)

\* content.split('\n') of a content whose lines each end with a newline.
SplitNewline(lines) == lines \o << Line(0, "") >>

\* parseJsonlString: one iteration of its loop; i is the 0-based index.
StringLoopBody(loc, line, i, o) ==
    LET r == parseJsonlLine(line, i + 1, o.onError)
        seen == [ loc EXCEPT !.errors = loc.errors \o r.errors ]
    IN  IF r.value = JsNull THEN seen
        ELSE IF FilteredOut(r.value, o.filterTypes) THEN seen
        ELSE [ seen EXCEPT !.yielded =
                  Append(@, [ line |-> i + 1, data |-> r.value ]) ]

RECURSIVE StringLoop(_, _, _, _)
StringLoop(loc, lines, i, o) ==
    IF i >= Len(lines) THEN loc
    ELSE StringLoop(StringLoopBody(loc, lines[i + 1], i, o), lines, i + 1, o)

\* parseJsonlString on the content made of `lines`, every record consumed.
parseJsonlString(lines, o) ==
    StringLoop([ yielded |-> <<>>, errors |-> <<>> ], SplitNewline(lines), 0, o)

\* The ParserStats of the return statement.
ParserStats ==
    [ totalLines |-> lineNumber, parsedLines |-> parsedLines,
      skippedLines |-> skippedLines, bytesProcessed |-> bytesRead ]

\* inputStream.destroy() of the finally block: it destroys the stream
\* createInputStream returned, which for a gzip file is the gunzip stream;
\* the file stream piped into it is left as it is.
DestroyFileStream(path, fs) == IF isGzipFile(path) THEN fs ELSE "closed"

DestroyGunzip(path) == IF isGzipFile(path) THEN "closed" ELSE "none"

\* The finally block: rl.close(); inputStream.destroy().
Finally ==
    /\ rl' = "closed"
    /\ fileStream' = DestroyFileStream(filePath, fileStream)
    /\ gunzip' = DestroyGunzip(filePath)

\* -------------------------------------------------------------------- Init
\* The state when the generator body has run up to the loop: the size is
\* read, the streams are created and piped, the listeners are attached.
\* streamJsonl called with one of `paths` and one of `options`, up to its
\* loop.
StreamCall(paths, files, options) ==
    /\ filePath \in paths
    /\ disk \in { Stored(filePath, content) : content \in files }
    /\ file = createInputStream(filePath, disk)
    /\ diskSize \in IF disk.gzip
                    THEN GzipSizes(SumBytes(disk.content))
                    ELSE { SumBytes(disk.content) }
    /\ opts \in options
    /\ pc = "loop"
    /\ lineNumber = 0 /\ parsedLines = 0 /\ skippedLines = 0 /\ bytesRead = 0
    /\ delivered = 0
    /\ ended = FALSE
    /\ fileStream = "open"
    /\ gunzip = IF isGzipFile(filePath) THEN "open" ELSE "none"
    /\ rl = "open"
    /\ yielded = <<>> /\ errors = <<>>
    /\ completeCalls = 0 /\ lastProgress = -1
    /\ stats = NoStats

\* A call of the generator alone.
CallOn(paths, files, options) == StreamCall(paths, files, options) /\ AggIdle

Call(paths, options) == CallOn(paths, Files, options)

Init == Call(Paths, Options)

\* ----------------------------------------------------------------- actions
Running == pc \in { "loop", "yield" }

\* The 'data' listener: the input stream emits a chunk of k whole lines.
OnData(k) ==
    LET chunk == SubSeq(file, delivered + 1, delivered + k)
        total == getFileSize(diskSize)
        read == bytesRead + SumBytes(chunk)
        called == opts.onProgress /\ total > 0
    IN  /\ Running
        /\ delivered + k <= Len(file)
        /\ delivered' = delivered + k
        /\ bytesRead' = read
        /\ completeCalls' = IF called /\ read = total
                            THEN completeCalls + 1 ELSE completeCalls
        /\ lastProgress' = IF called THEN read ELSE lastProgress
        /\ UNCHANGED << aggVars, filePath, disk, file, diskSize, opts, pc, lineNumber,
                        parsedLines, skippedLines, ended, fileStream, gunzip,
                        rl, yielded, errors, stats >>

\* The source is exhausted: the file stream closes itself (autoClose) and
\* the input stream emits 'end'.
OnEnd ==
    /\ Running
    /\ ~ended
    /\ delivered = Len(file)
    /\ ended' = TRUE
    /\ fileStream' = "closed"
    /\ gunzip' = IF isGzipFile(filePath) THEN "closed" ELSE "none"
    /\ UNCHANGED << aggVars, filePath, disk, file, diskSize, opts, pc, lineNumber,
                    parsedLines, skippedLines, bytesRead, delivered, rl,
                    yielded, errors, completeCalls,
                    lastProgress, stats >>

\* The loop takes the next line readline has.
NextLine ==
    /\ pc = "loop"
    /\ lineNumber < delivered
    /\ LET step == LoopBody(Locals, file[lineNumber + 1], opts) IN
        /\ lineNumber' = step.loc.lineNumber
        /\ parsedLines' = step.loc.parsedLines
        /\ skippedLines' = step.loc.skippedLines
        /\ yielded' = step.loc.yielded
        /\ errors' = step.loc.errors
        /\ pc' = IF step.yields THEN "yield" ELSE "loop"
    /\ UNCHANGED << aggVars, filePath, disk, file, diskSize, opts, bytesRead, delivered,
                    ended, fileStream, gunzip, rl, completeCalls, lastProgress, stats >>

\* The consumer asks for the next record: next().
Resume ==
    /\ pc = "yield"
    /\ pc' = "loop"
    /\ UNCHANGED << aggVars, filePath, disk, file, diskSize, opts, lineNumber, parsedLines,
                    skippedLines, bytesRead, delivered, ended, fileStream,
                    gunzip, rl, yielded, errors, completeCalls, lastProgress, stats >>

\* readline has no more lines: the loop ends, the finally block runs and
\* the stats are returned.
Finish ==
    /\ pc = "loop"
    /\ ended
    /\ lineNumber = Len(file)
    /\ Finally
    /\ stats' = ParserStats
    /\ pc' = "done"
    /\ UNCHANGED << aggVars, filePath, disk, file, diskSize, opts, lineNumber, parsedLines,
                    skippedLines, bytesRead, delivered, ended, yielded,
                    errors, completeCalls, lastProgress >>

\* The consumer closes the generator while it is suspended at the yield
\* (a break out of for await calls return()): only the finally block runs.
Return ==
    /\ pc = "yield"
    /\ Finally
    /\ pc' = "returned"
    /\ UNCHANGED << aggVars, filePath, disk, file, diskSize, opts, lineNumber, parsedLines,
                    skippedLines, bytesRead, delivered, ended, yielded,
                    errors, completeCalls, lastProgress,
                    stats >>

\* The consumer throws into the generator suspended at the yield (throw()):
\* the error propagates out of the loop through the finally block.
Throw ==
    /\ pc = "yield"
    /\ Finally
    /\ pc' = "thrown"
    /\ UNCHANGED << aggVars, filePath, disk, file, diskSize, opts, lineNumber, parsedLines,
                    skippedLines, bytesRead, delivered, ended, yielded,
                    errors, completeCalls, lastProgress,
                    stats >>

Next ==
    \/ \E k \in 1..(MaxLines + 1) : OnData(k)
    \/ OnEnd
    \/ NextLine
    \/ Resume
    \/ Finish
    \/ Return
    \/ Throw

Spec == Init /\ [][Next]_vars

\* The calls on a plain file and on its gzip compression under both
\* suffixes, without progress callback.
GzipPaths == Paths \cup { <<"log", "jsonl", "gzip">> }

InitGzip == Call(GzipPaths, { o \in Options : ~o.onProgress })

SpecGzip == InitGzip /\ [][Next]_vars

\* ----------------------------------------------------- streamJsonlWithMeta

\* The lines of the model and a record with whitespace around it.
MetaLines == Lines \cup { Line(1, "{\"type\":\"user\"}") }

MetaFiles == UNION { [1..n -> MetaLines] : n \in 0..MaxLines }

\* streamJsonlWithMeta called, up to its loop; it attaches no 'data'
\* listener and reads no size.
InitMeta == CallOn(Paths, MetaFiles, { o \in Options : ~o.onProgress })

\* The locals of streamJsonlWithMeta and what it has handed out so far.
MetaLocals ==
    [ lineNumber |-> lineNumber, yielded |-> yielded, errors |-> errors,
      thrown |-> FALSE ]

\* The finally block when the body throws; nothing otherwise.
FinallyIf(thrown) ==
    IF thrown THEN Finally ELSE UNCHANGED << rl, fileStream, gunzip >>

\* The loop takes the next line: it is passed over, yielded, or reported,
\* and with skipMalformed false the error leaves the generator.
MetaNextLine ==
    /\ pc = "loop"
    /\ lineNumber < Len(file)
    /\ LET loc == MetaLoopBody(MetaLocals, file[lineNumber + 1], opts) IN
        /\ lineNumber' = loc.lineNumber
        /\ yielded' = loc.yielded
        /\ errors' = loc.errors
        /\ pc' = IF loc.thrown THEN "thrown"
                 ELSE IF Len(loc.yielded) > Len(yielded) THEN "yield"
                 ELSE "loop"
        /\ FinallyIf(loc.thrown)
    /\ UNCHANGED << aggVars, filePath, disk, file, diskSize, opts, parsedLines,
                    skippedLines, bytesRead, delivered, ended, completeCalls,
                    lastProgress, stats >>

\* The consumer asks for the next item: next().
MetaResume ==
    /\ pc = "yield"
    /\ pc' = "loop"
    /\ UNCHANGED << aggVars, filePath, disk, file, diskSize, opts, lineNumber,
                    parsedLines, skippedLines, bytesRead, delivered, ended,
                    fileStream, gunzip, rl, yielded, errors, completeCalls,
                    lastProgress, stats >>

\* The consumer closes the generator suspended at the yield: return().
MetaReturn ==
    /\ pc = "yield"
    /\ Finally
    /\ pc' = "returned"
    /\ UNCHANGED << aggVars, filePath, disk, file, diskSize, opts, lineNumber,
                    parsedLines, skippedLines, bytesRead, delivered, ended,
                    yielded, errors, completeCalls, lastProgress, stats >>

\* The consumer throws into the generator suspended at the yield: the
\* yield is inside the try, so the catch reports the error for the current
\* line and, with skipMalformed true, the loop goes on.
MetaThrow ==
    /\ pc = "yield"
    /\ errors' = IF opts.onError
                 THEN Append(errors, [ lineNumber |-> lineNumber,
                                       raw |-> Trim(file[lineNumber]) ])
                 ELSE errors
    /\ pc' = IF opts.skipMalformed THEN "loop" ELSE "thrown"
    /\ FinallyIf(~opts.skipMalformed)
    /\ UNCHANGED << aggVars, filePath, disk, file, diskSize, opts, lineNumber,
                    parsedLines, skippedLines, bytesRead, delivered, ended,
                    yielded, completeCalls, lastProgress, stats >>

\* readline has no more lines: the source has reached its end and closed
\* itself, the loop ends and the finally block runs.
MetaFinish ==
    /\ pc = "loop"
    /\ lineNumber = Len(file)
    /\ ended' = TRUE
    /\ rl' = "closed"
    /\ fileStream' = "closed"
    /\ gunzip' = DestroyGunzip(filePath)
    /\ pc' = "done"
    /\ UNCHANGED << aggVars, filePath, disk, file, diskSize, opts, lineNumber,
                    parsedLines, skippedLines, bytesRead, delivered, yielded,
                    errors, completeCalls, lastProgress, stats >>

NextMeta ==
    \/ MetaNextLine
    \/ MetaResume
    \/ MetaReturn
    \/ MetaThrow
    \/ MetaFinish

SpecMeta == InitMeta /\ [][NextMeta]_vars

\* ------------------------------------------------------- classes of lines
IsBlankOrComment(line) == Trim(line) = "" \/ StartsWithHash(Trim(line))

\* A line JSON.parse rejects.
IsMalformed(line) ==
    ~IsBlankOrComment(line) /\ JSONParse(Trim(line)) = SyntaxError

IsObjectLine(line) ==
    ~IsBlankOrComment(line) /\ JSONParse(Trim(line)).kind = "object"

\* Valid JSON that is no JSON object.
IsNonObjectJson(line) ==
    ~IsBlankOrComment(line) /\ ~IsMalformed(line) /\ ~IsObjectLine(line)

BlankOrCommentAt == { i \in DOMAIN file : IsBlankOrComment(file[i]) }
MalformedAt == { i \in DOMAIN file : IsMalformed(file[i]) }
ObjectAt == { i \in DOMAIN file : IsObjectLine(file[i]) }
NonObjectAt == { i \in DOMAIN file : IsNonObjectJson(file[i]) }

YieldedLines == { yielded[i].line : i \in DOMAIN yielded }
ErrorLines == { errors[i].lineNumber : i \in DOMAIN errors }

Drained == pc = "done"

\* ------------------------------------------------------------ aggregation

MaxEntries == 3

\* A JavaScript object is the function from the names of the properties it
\* has to their values: an absent (undefined) property is not in its DOMAIN.
NoProps == [ k \in {} |-> 0 ]

Has(obj, key) == key \in DOMAIN obj

\* obj.key || 0, for a property that holds a number when present.
OrZero(obj, key) == IF Has(obj, key) THEN obj[key] ELSE 0

\* obj after the assignment obj.key = value.
With(obj, key, value) == (key :> value) @@ obj

\* Timestamps are ISO-8601 strings of the form toISOString() produces; for
\* these, `<` on strings, localeCompare and the order of the instants agree,
\* so a timestamp is represented by the number of its instant.
Instants == 1..2

\* What new Date().toISOString() can return: the clock may be behind, or
\* ahead of, the timestamps written in a log.
Clock == 1..3

SessionIds == { "s1", "s2" }

SessionParts == { NoProps } \cup { [ session_id |-> s ] : s \in SessionIds }

TimestampParts == { NoProps } \cup { [ timestamp |-> t ] : t \in Instants }

MessageEntries ==
    { s @@ t @@ [ type |-> "user" ] : s \in SessionParts, t \in TimestampParts }

UsageEntries ==
    { [ type |-> "assistant",
        usage |-> [ input_tokens |-> 100, output_tokens |-> 50 ] ],
      [ session_id |-> "s1", type |-> "assistant", model |-> "sonnet",
        usage |-> [ input_tokens |-> 200, output_tokens |-> 100,
                    cache_read_input_tokens |-> 50 ] ],
      [ session_id |-> "s1", type |-> "assistant",
        usage |-> [ input_tokens |-> 100, output_tokens |-> 50,
                    cache_creation_input_tokens |-> 7 ] ] }

OtherEntries == { [ session_id |-> "unknown", type |-> "tool", timestamp |-> 1 ] }

\* RawLogEntry values.
Entries == MessageEntries \cup UsageEntries \cup OtherEntries

\* Five entries, two of them with usage.
ExampleLog ==
    << [ type |-> "user" ],
       [ type |-> "assistant",
         usage |-> [ input_tokens |-> 100, output_tokens |-> 50 ] ],
       [ type |-> "user" ],
       [ session_id |-> "s1", type |-> "assistant", model |-> "sonnet",
         usage |-> [ input_tokens |-> 200, output_tokens |-> 100,
                     cache_read_input_tokens |-> 50 ] ],
       [ type |-> "user" ] >>

EntryLists ==
    UNION { [ 1..n -> Entries ] : n \in 0..MaxEntries } \cup { ExampleLog }

\* Token counts passed to calculateCost.
TokenCounts == { -1, 0, 1000000 }

CostArgs == [ 1..2 -> TokenCounts ] \cup [ 1..3 -> TokenCounts ]

\* PRICING, in tenths of a dollar per million tokens.
PRICING_inputPerMillion == 30
PRICING_outputPerMillion == 150
PRICING_cacheReadPerMillion == 3

\* (tokens / 1_000_000) * rate.  With the rate in tenths of a dollar the
\* amount is in units of 10^-7 dollar, and exact.
PerMillion(tokens, rate) == tokens * rate

\* calculateCost; cacheRead defaults to 0 when the argument is omitted.
calculateCost(a) ==
    LET input == a[1]
        output == a[2]
        cacheRead == IF Len(a) >= 3 THEN a[3] ELSE 0
        inputCost == PerMillion(input, PRICING_inputPerMillion)
        outputCost == PerMillion(output, PRICING_outputPerMillion)
        cacheCost == PerMillion(cacheRead, PRICING_cacheReadPerMillion)
    IN  inputCost + outputCost + cacheCost

\* The cost estimate with cache reads billed at the input rate.
CostEstimate_CacheAtInputRate(input, output, cacheRead) ==
    [ inputCost |-> PerMillion(input, 30),
      outputCost |-> PerMillion(output, 150),
      totalCost |-> PerMillion(input, 30) + PerMillion(output, 150)
                      + PerMillion(cacheRead, 30) ]

\* The costEstimate object jsonl.ts builds from its literal rates 3, 15, 0.3.
CostEstimate(input, output, cacheRead) ==
    LET inputCost == PerMillion(input, 30)
        outputCost == PerMillion(output, 150)
        cacheReadCost == PerMillion(cacheRead, 3)
    IN  [ inputCost |-> inputCost,
          outputCost |-> outputCost,
          totalCost |-> inputCost + outputCost + cacheReadCost ]

InitialTotals_One ==
    [ input |-> 1, output |-> 0, cacheCreation |-> 0, cacheRead |-> 0 ]

\* let input = 0, output = 0, cacheCreation = 0, cacheRead = 0.
InitialTotals ==
    [ input |-> 0, output |-> 0, cacheCreation |-> 0, cacheRead |-> 0 ]

\* The accumulation that forgets the absent-field default of output_tokens.
AddUsage_OutputFromInput(t, entry) ==
    IF Has(entry, "usage")
    THEN [ input |-> t.input + OrZero(entry.usage, "input_tokens"),
           output |-> t.output + OrZero(entry.usage, "input_tokens"),
           cacheCreation |-> t.cacheCreation
                               + OrZero(entry.usage, "cache_creation_input_tokens"),
           cacheRead |-> t.cacheRead
                           + OrZero(entry.usage, "cache_read_input_tokens") ]
    ELSE t

\* if (entry.usage) { input += entry.usage.input_tokens || 0; ... }
AddUsage(t, entry) ==
    IF Has(entry, "usage")
    THEN [ input |-> t.input + OrZero(entry.usage, "input_tokens"),
           output |-> t.output + OrZero(entry.usage, "output_tokens"),
           cacheCreation |-> t.cacheCreation
                               + OrZero(entry.usage, "cache_creation_input_tokens"),
           cacheRead |-> t.cacheRead
                           + OrZero(entry.usage, "cache_read_input_tokens") ]
    ELSE t

\* The TokenTotals object of the return statement.
TokenTotals(t) ==
    [ input |-> t.input,
      output |-> t.output,
      cacheCreation |-> t.cacheCreation,
      cacheRead |-> t.cacheRead,
      total |-> t.input + t.output,
      costEstimate |-> CostEstimate(t.input, t.output, t.cacheRead) ]

RECURSIVE TotalsLoop(_, _)
TotalsLoop(t, list) ==
    IF list = <<>> THEN t
    ELSE TotalsLoop(AddUsage(t, Head(list)), Tail(list))

calculateTokenTotals(list) == TokenTotals(TotalsLoop(InitialTotals, list))

\* calculateTokenTotalsStream, given the records streamJsonl yields.
calculateTokenTotalsStream(records) ==
    TokenTotals(TotalsLoop(InitialTotals, records))

\* The sessions Map, as the sequence of its values in insertion order.
MapHas_Never(sessions, id) == FALSE

MapHas(sessions, id) == \E i \in DOMAIN sessions : sessions[i].sessionId = id

MapGet(sessions, id) ==
    sessions[CHOOSE i \in DOMAIN sessions : sessions[i].sessionId = id]

\* A set that leaves the value of a key already present as it is.
MapSet_KeepOld(sessions, id, value) ==
    IF \E i \in DOMAIN sessions : sessions[i].sessionId = id
    THEN sessions
    ELSE Append(sessions, value)

\* Map.set: a key already present keeps its position.
MapSet(sessions, id, value) ==
    IF \E i \in DOMAIN sessions : sessions[i].sessionId = id
    THEN [ i \in DOMAIN sessions |->
             IF sessions[i].sessionId = id THEN value ELSE sessions[i] ]
    ELSE Append(sessions, value)

MessageTypes == { "user", "assistant", "tool", "system", "error" }

\* The SessionSummary created when a session id is seen for the first time.
NewSession(sessionId, entry, now) ==
    LET summary ==
          [ sessionId |-> sessionId,
            startTime |-> IF Has(entry, "timestamp") THEN entry.timestamp ELSE now,
            messageCount |-> [ t \in MessageTypes |-> 0 ],
            tokenUsage |-> [ input |-> 0, output |-> 0, cacheCreation |-> 0,
                             cacheRead |-> 0, total |-> 0,
                             costEstimate |-> [ inputCost |-> 0, outputCost |-> 0,
                                                totalCost |-> 0 ] ] ]
    IN  IF Has(entry, "model") THEN With(summary, "model", entry.model)
        ELSE summary

\* entry.session_id || 'unknown'
SessionKey(entry) ==
    IF Has(entry, "session_id") THEN entry.session_id ELSE "unknown"

\* extractSessionSummaries: one iteration of its first loop; `now` is the
\* clock reading taken if the summary is created from an entry without
\* timestamp.
SessionsBody(sessions, entry, now) ==
    LET sessionId == SessionKey(entry)
        created == IF MapHas(sessions, sessionId) THEN sessions
                   ELSE MapSet(sessions, sessionId,
                               NewSession(sessionId, entry, now))
        session == MapGet(created, sessionId)
        started == IF Has(entry, "timestamp") /\ entry.timestamp < session.startTime
                   THEN [ session EXCEPT !.startTime = entry.timestamp ]
                   ELSE session
        timed == IF /\ Has(entry, "timestamp")
                    /\ (~Has(started, "endTime") \/ entry.timestamp > started.endTime)
                 THEN With(started, "endTime", entry.timestamp)
                 ELSE started
        named == IF Has(entry, "model") THEN With(timed, "model", entry.model)
                 ELSE timed
        counted == IF Has(entry, "type") /\ entry.type \in MessageTypes
                   THEN [ named EXCEPT !.messageCount[entry.type] = @ + 1 ]
                   ELSE named
        sums == AddUsage([ input |-> counted.tokenUsage.input,
                           output |-> counted.tokenUsage.output,
                           cacheCreation |-> counted.tokenUsage.cacheCreation,
                           cacheRead |-> counted.tokenUsage.cacheRead ], entry)
        used == IF Has(entry, "usage")
                THEN [ counted EXCEPT
                         !.tokenUsage.input = sums.input,
                         !.tokenUsage.output = sums.output,
                         !.tokenUsage.cacheCreation = sums.cacheCreation,
                         !.tokenUsage.cacheRead = sums.cacheRead,
                         !.tokenUsage.total = sums.input + sums.output ]
                ELSE counted
    IN  MapSet(created, sessionId, used)

\* The second loop: the cost estimate of every session.
WithCosts(sessions) ==
    [ i \in DOMAIN sessions |->
        [ sessions[i] EXCEPT !.tokenUsage.costEstimate =
            CostEstimate(sessions[i].tokenUsage.input,
                         sessions[i].tokenUsage.output,
                         sessions[i].tokenUsage.cacheRead) ] ]

\* The position a summary takes in a list already sorted: after every
\* summary that does not start later (Array.prototype.sort is stable).
RECURSIVE Insert(_, _)
Insert(summary, sorted) ==
    IF sorted = <<>> THEN << summary >>
    ELSE IF Head(sorted).startTime <= summary.startTime
         THEN << Head(sorted) >> \o Insert(summary, Tail(sorted))
         ELSE << summary >> \o sorted

SortByStartTime_None(sessions) == sessions

\* Array.from(sessions.values()).sort((a, b) => a.startTime.localeCompare(b.startTime))
RECURSIVE SortByStartTime(_)
SortByStartTime(sessions) ==
    IF sessions = <<>> THEN <<>>
    ELSE Insert(sessions[Len(sessions)],
                SortByStartTime(SubSeq(sessions, 1, Len(sessions) - 1)))

\* The path handed to analyzeLogFile.
LogFile == "log.jsonl"

\* analyzeLogFile: its locals before the loop; firstTimestamp and
\* lastTimestamp are absent while they are null.
InitialUsage ==
    [ inputTokens |-> 0, outputTokens |-> 0, cacheCreation |-> 0,
      cacheRead |-> 0, messageCount |-> 0, sessionId |-> "" ]

\* The loop body that takes the session id of every entry that has one.
AnalyzeBody_LastSessionId(u, entry) ==
    LET ident == IF Has(entry, "session_id")
                 THEN [ u EXCEPT !.sessionId = entry.session_id ]
                 ELSE u
        counted == IF Has(entry, "type") /\ entry.type \in { "user", "assistant" }
                   THEN [ ident EXCEPT !.messageCount = @ + 1 ]
                   ELSE ident
        sums == AddUsage([ input |-> counted.inputTokens,
                           output |-> counted.outputTokens,
                           cacheCreation |-> counted.cacheCreation,
                           cacheRead |-> counted.cacheRead ], entry)
    IN  [ counted EXCEPT !.inputTokens = sums.input,
                         !.outputTokens = sums.output,
                         !.cacheCreation = sums.cacheCreation,
                         !.cacheRead = sums.cacheRead ]

\* analyzeLogFile: one iteration of its loop.
AnalyzeBody(u, entry) ==
    LET first == IF /\ Has(entry, "timestamp")
                    /\ (~Has(u, "firstTimestamp")
                          \/ entry.timestamp < u.firstTimestamp)
                 THEN With(u, "firstTimestamp", entry.timestamp)
                 ELSE u
        last == IF /\ Has(entry, "timestamp")
                   /\ (~Has(first, "lastTimestamp")
                         \/ entry.timestamp > first.lastTimestamp)
                THEN With(first, "lastTimestamp", entry.timestamp)
                ELSE first
        ident == IF last.sessionId = "" /\ Has(entry, "session_id")
                 THEN [ last EXCEPT !.sessionId = entry.session_id ]
                 ELSE last
        counted == IF Has(entry, "type") /\ entry.type \in { "user", "assistant" }
                   THEN [ ident EXCEPT !.messageCount = @ + 1 ]
                   ELSE ident
        sums == AddUsage([ input |-> counted.inputTokens,
                           output |-> counted.outputTokens,
                           cacheCreation |-> counted.cacheCreation,
                           cacheRead |-> counted.cacheRead ], entry)
    IN  [ counted EXCEPT !.inputTokens = sums.input,
                         !.outputTokens = sums.output,
                         !.cacheCreation = sums.cacheCreation,
                         !.cacheRead = sums.cacheRead ]

\* calculateCacheHitRatio, as the fraction << numerator, denominator >>.
calculateCacheHitRatio(input, cacheRead) ==
    IF input + cacheRead = 0 THEN << 0, 1 >>
    ELSE << cacheRead, input + cacheRead >>

\* The SessionUsage analyzeLogFile returns (without its sessionLabel);
\* `now` is the clock reading used when no entry carries a timestamp.
SessionUsage(u, now) ==
    LET usage ==
          [ sessionId |-> IF u.sessionId # "" THEN u.sessionId ELSE LogFile,
            inputTokens |-> u.inputTokens,
            outputTokens |-> u.outputTokens,
            cacheCreation |-> u.cacheCreation,
            cacheRead |-> u.cacheRead,
            totalTokens |-> u.inputTokens + u.outputTokens,
            costUSD |-> calculateCost(<< u.inputTokens, u.outputTokens, u.cacheRead >>),
            cacheHitRatio |-> calculateCacheHitRatio(u.inputTokens, u.cacheRead),
            messageCount |-> u.messageCount,
            timestamp |-> IF Has(u, "firstTimestamp") THEN u.firstTimestamp ELSE now ]
    IN  IF Has(u, "firstTimestamp") /\ Has(u, "lastTimestamp")
        THEN With(usage, "duration", u.lastTimestamp - u.firstTimestamp)
        ELSE usage

\* A readJsonl that keeps only the first record.
readJsonl_FirstOnly(lines, o) ==
    LET items == Drain(InitialLocals, lines, o).yielded
    IN  IF items = <<>> THEN <<>> ELSE << items[1].data >>

\* readJsonl: the records of a fully drained streamJsonl, in an array.
readJsonl(lines, o) ==
    LET items == Drain(InitialLocals, lines, o).yielded
    IN  [ i \in DOMAIN items |-> items[i].data ]

Returned(value) == [ status |-> "returned", value |-> value ]

AggFunctions ==
    { "calculateTokenTotals", "extractSessionSummaries", "analyzeLogFile" }

\* The options of a call that passes none: DEFAULT_OPTIONS, no callbacks,
\* no filter.
DEFAULT_OPTIONS ==
    [ skipMalformed |-> TRUE, onError |-> FALSE,
      onProgress |-> FALSE, filterTypes |-> {} ]

\* streamJsonl is not running.
StreamIdle ==
    /\ filePath = <<>> /\ disk = [ gzip |-> FALSE, content |-> <<>> ]
    /\ file = <<>> /\ diskSize = 0
    /\ opts = DEFAULT_OPTIONS
    /\ pc = "idle"
    /\ lineNumber = 0 /\ parsedLines = 0 /\ skippedLines = 0 /\ bytesRead = 0
    /\ delivered = 0
    /\ ended = FALSE
    /\ fileStream = "none" /\ gunzip = "none" /\ rl = "none"
    /\ yielded = <<>> /\ errors = <<>>
    /\ completeCalls = 0 /\ lastProgress = -1
    /\ stats = NoStats

\* One call of an aggregation function, on its arguments.
InitAgg ==
    /\ StreamIdle
    /\ \/ /\ fn \in AggFunctions
          /\ entries \in EntryLists
          /\ args = <<>>
       \/ /\ fn = "calculateCost"
          /\ entries = <<>>
          /\ args \in CostArgs
    /\ cursor = 0
    /\ acc = CASE fn = "calculateTokenTotals" -> InitialTotals
               [] fn = "extractSessionSummaries" -> <<>>
               [] fn = "analyzeLogFile" -> InitialUsage
               [] OTHER -> <<>>
    /\ result = NoResult

Pending == result.status = "pending"

\* One iteration of `for (const entry of entries)` of calculateTokenTotals.
TotalsStep ==
    /\ fn = "calculateTokenTotals" /\ Pending
    /\ cursor < Len(entries)
    /\ acc' = AddUsage(acc, entries[cursor + 1])
    /\ cursor' = cursor + 1
    /\ UNCHANGED << streamVars, fn, entries, args, result >>

TotalsReturn ==
    /\ fn = "calculateTokenTotals" /\ Pending
    /\ cursor = Len(entries)
    /\ result' = Returned(TokenTotals(acc))
    /\ UNCHANGED << streamVars, fn, entries, args, cursor, acc >>

\* One iteration of the first loop of extractSessionSummaries.
SessionsStep ==
    /\ fn = "extractSessionSummaries" /\ Pending
    /\ cursor < Len(entries)
    /\ \E now \in Clock : acc' = SessionsBody(acc, entries[cursor + 1], now)
    /\ cursor' = cursor + 1
    /\ UNCHANGED << streamVars, fn, entries, args, result >>

\* The cost loop, the sort and the return of extractSessionSummaries.
SessionsReturn ==
    /\ fn = "extractSessionSummaries" /\ Pending
    /\ cursor = Len(entries)
    /\ result' = Returned(SortByStartTime(WithCosts(acc)))
    /\ UNCHANGED << streamVars, fn, entries, args, cursor, acc >>

\* One iteration of the loop of analyzeLogFile over what readJsonl returned.
AnalyzeStep ==
    /\ fn = "analyzeLogFile" /\ Pending
    /\ cursor < Len(entries)
    /\ acc' = AnalyzeBody(acc, entries[cursor + 1])
    /\ cursor' = cursor + 1
    /\ UNCHANGED << streamVars, fn, entries, args, result >>

AnalyzeReturn ==
    /\ fn = "analyzeLogFile" /\ Pending
    /\ cursor = Len(entries)
    /\ \E now \in Clock : result' = Returned(SessionUsage(acc, now))
    /\ UNCHANGED << streamVars, fn, entries, args, cursor, acc >>

CostCall ==
    /\ fn = "calculateCost" /\ Pending
    /\ result' = Returned(calculateCost(args))
    /\ UNCHANGED << streamVars, fn, entries, args, cursor, acc >>

NextAgg ==
    \/ TotalsStep
    \/ TotalsReturn
    \/ SessionsStep
    \/ SessionsReturn
    \/ AnalyzeStep
    \/ AnalyzeReturn
    \/ CostCall

SpecAgg == InitAgg /\ [][NextAgg]_vars

\* ------------------------------------------------------ formatSessionLabel

MaxDays == 3

\* 24 * 60 * 60 * 1000 milliseconds, in hours; instants are counted in
\* hours from the first local midnight of the calendar.
TwentyFourHours == 24

\* The local calendars: the lengths in hours of consecutive local days, at
\* most one of which has a clock change (23 or 25 hours).
Calendars ==
    { cal \in [ 1..MaxDays -> { 23, 24, 25 } ] :
        Cardinality({ d \in 1..MaxDays : cal[d] # 24 }) <= 1 }

RECURSIVE DayStart(_, _)
\* new Date(year, month, date).getTime(): the instant of the local midnight
\* that begins day d.
DayStart(cal, d) == IF d = 1 THEN 0 ELSE DayStart(cal, d - 1) + cal[d - 1]

CalendarInstants(cal) == 0..(DayStart(cal, Len(cal) + 1) - 1)

\* getFullYear(), getMonth(), getDate(): the local day instant t falls in.
DayOf(cal, t) ==
    CHOOSE d \in 1..Len(cal) : DayStart(cal, d) <= t /\ t < DayStart(cal, d + 1)

\* formatSessionLabel: the prefix of the label, and the day for the date
\* form; `now` is the reading of new Date().  The HH:MM part is left out.
formatSessionLabel(timestamp, now, cal) ==
    LET today == DayStart(cal, DayOf(cal, now))
        yesterday == today - TwentyFourHours
        sessionDate == DayStart(cal, DayOf(cal, timestamp))
    IN  IF sessionDate = today THEN [ prefix |-> "Today" ]
        ELSE IF sessionDate = yesterday THEN [ prefix |-> "Yesterday" ]
        ELSE [ prefix |-> "date", day |-> DayOf(cal, timestamp) ]

\* formatSessionLabel called with timestamp args[1] when the clock reads
\* args[2], in the time zone whose calendar is acc.
InitLabel ==
    /\ StreamIdle
    /\ fn = "formatSessionLabel"
    /\ entries = <<>>
    /\ acc \in Calendars
    /\ args \in [ 1..2 -> CalendarInstants(acc) ]
    /\ cursor = 0
    /\ result = NoResult

LabelCall ==
    /\ fn = "formatSessionLabel" /\ Pending
    /\ result' = Returned(formatSessionLabel(args[1], args[2], acc))
    /\ UNCHANGED << streamVars, fn, entries, args, cursor, acc >>

NextLabel == LabelCall

SpecLabel == InitLabel /\ [][NextLabel]_vars

\* ---------------------------------------------- calculateTokenTotalsStream

\* Lines of a log with usage data.
UsageLines ==
    { Line(0, t) :
        t \in { "#c", "{bad", "{\"type\":\"user\"}",
                "{\"type\":\"assistant\",\"usage\":{\"input_tokens\":100,\"output_tokens\":50}}",
                "{\"usage\":{\"input_tokens\":200,\"output_tokens\":100,\"cache_read_input_tokens\":50}}" } }

UsageFiles == UNION { [1..n -> UsageLines] : n \in 0..MaxLines }

\* calculateTokenTotalsStream called: its locals are zero and its for await
\* has started streamJsonl on the file with the options.
InitTotalsStream ==
    /\ StreamCall(Paths, UsageFiles, { o \in Options : ~o.onProgress })
    /\ fn = "calculateTokenTotalsStream"
    /\ entries = <<>> /\ args = <<>> /\ cursor = 0
    /\ acc = InitialTotals
    /\ result = NoResult

\* The body of the for await on the record just yielded, then next().
StreamTotalsAdd ==
    /\ pc = "yield"
    /\ acc' = AddUsage(acc, yielded[Len(yielded)].data)
    /\ cursor' = cursor + 1
    /\ pc' = "loop"
    /\ UNCHANGED << streamVarsButPc, fn, entries, args, result >>

\* The generator is done: the costs are computed and the totals returned.
StreamTotalsReturn ==
    /\ pc = "done" /\ Pending
    /\ result' = Returned(TokenTotals(acc))
    /\ UNCHANGED << streamVars, fn, entries, args, cursor, acc >>

NextTotalsStream ==
    \/ \E k \in 1..(MaxLines + 1) : OnData(k)
    \/ OnEnd
    \/ NextLine
    \/ Finish
    \/ StreamTotalsAdd
    \/ StreamTotalsReturn

SpecTotalsStream == InitTotalsStream /\ [][NextTotalsStream]_vars


\* ------------------------------------------- analyzeSessions, analyzeProject

MaxSessions == 3

\* SessionInfo values: the log file of a session, with what readJsonl gives
\* for it, or with `readable` FALSE when the file cannot be read and the
\* promise of analyzeLogFile rejects; `timestamp` is present when the file
\* name carried one.
SessionInfos ==
    { [ logFile |-> "a.jsonl", readable |-> TRUE, content |-> ExampleLog ],
      [ logFile |-> "b.jsonl", readable |-> TRUE, timestamp |-> 2,
        content |-> << [ session_id |-> "s1", type |-> "assistant",
                         usage |-> [ input_tokens |-> 100, output_tokens |-> 50,
                                     cache_creation_input_tokens |-> 7 ] ] >> ],
      [ logFile |-> "c.jsonl", readable |-> TRUE,
        content |-> << [ type |-> "user", timestamp |-> 1 ] >> ],
      [ logFile |-> "d.jsonl", readable |-> TRUE, content |-> <<>> ],
      [ logFile |-> "e.jsonl", readable |-> FALSE, content |-> <<>> ],
      [ logFile |-> "f.jsonl", readable |-> FALSE, timestamp |-> 1,
        content |-> <<>> ] }

SessionLists == UNION { [ 1..n -> SessionInfos ] : n \in 0..MaxSessions }

\* The `limit` argument: a session count.
Limits == 0..(MaxSessions + 1)

\* sessions.slice(0, limit) without the bound at limit.
Slice_All(list, limit) == list

\* sessions.slice(0, limit), for limit >= 0.
Slice(list, limit) ==
    IF limit >= Len(list) THEN list ELSE SubSeq(list, 1, limit)

RECURSIVE AnalyzeLoop(_, _)
AnalyzeLoop(u, list) ==
    IF list = <<>> THEN u
    ELSE AnalyzeLoop(AnalyzeBody(u, Head(list)), Tail(list))

\* analyzeLogFile(session.logFile) when it returns: the loop over the
\* records of the file, the session id falling back to the path.
analyzeLogFile(session, now) ==
    LET u == AnalyzeLoop(InitialUsage, session.content)
        usage == SessionUsage(u, now)
    IN  IF u.sessionId = ""
        THEN [ usage EXCEPT !.sessionId = session.logFile ]
        ELSE usage

\* The body of the try of analyzeSessions after the await (the label that
\* goes with the timestamp is left out, as it is in SessionUsage).
TryAnalyze(results, session, now) ==
    LET usage == analyzeLogFile(session, now)
    IN  Append(results,
               IF Has(session, "timestamp")
               THEN With(usage, "timestamp", session.timestamp)
               ELSE usage)

\* analyzeProject: the totals before its loop.
InitialProjectTotals(sessionUsages) ==
    [ inputTokens |-> 0, outputTokens |-> 0, cacheCreation |-> 0,
      cacheRead |-> 0, totalTokens |-> 0, costUSD |-> 0,
      cacheHitRatio |-> << 0, 1 >>, messageCount |-> 0,
      sessionCount |-> Len(sessionUsages) ]

\* analyzeProject: one iteration of `for (const session of sessionUsages)`.
AddSession(totals, session) ==
    [ totals EXCEPT !.inputTokens = @ + session.inputTokens,
                    !.outputTokens = @ + session.outputTokens,
                    !.cacheCreation = @ + session.cacheCreation,
                    !.cacheRead = @ + session.cacheRead,
                    !.totalTokens = @ + session.totalTokens,
                    !.costUSD = @ + session.costUSD,
                    !.messageCount = @ + session.messageCount ]

RECURSIVE ProjectTotalsLoop(_, _)
ProjectTotalsLoop(totals, sessionUsages) ==
    IF sessionUsages = <<>> THEN totals
    ELSE ProjectTotalsLoop(AddSession(totals, Head(sessionUsages)),
                           Tail(sessionUsages))

\* analyzeProject after analyzeSessions has returned.
ProjectUsage(projectId, projectName, sessionUsages) ==
    LET summed == ProjectTotalsLoop(InitialProjectTotals(sessionUsages),
                                    sessionUsages)
    IN  [ projectId |-> projectId,
          projectName |-> projectName,
          sessions |-> sessionUsages,
          totals |-> [ summed EXCEPT !.cacheHitRatio =
                         calculateCacheHitRatio(summed.inputTokens,
                                                summed.cacheRead) ] ]

\* analyzeProject called: analyzeSessions starts with no results.
InitProject ==
    /\ StreamIdle
    /\ fn = "analyzeProject"
    /\ entries \in SessionLists
    /\ args \in [ projectId : { "-p" }, projectName : { "p" }, limit : Limits ]
    /\ cursor = 0
    /\ acc = <<>>
    /\ result = NoResult

sessionsToAnalyze == Slice(entries, args.limit)

\* One iteration of the loop of analyzeSessions: the usage is pushed, or
\* the rejection of analyzeLogFile is caught and only a warning is printed.
SessionStep ==
    /\ fn = "analyzeProject" /\ Pending
    /\ cursor < Len(sessionsToAnalyze)
    /\ LET session == sessionsToAnalyze[cursor + 1]
       IN  IF session.readable
           THEN \E now \in Clock : acc' = TryAnalyze(acc, session, now)
           ELSE acc' = acc
    /\ cursor' = cursor + 1
    /\ UNCHANGED << streamVars, fn, entries, args, result >>

\* analyzeSessions returns its results; analyzeProject sums and returns.
ProjectReturn ==
    /\ fn = "analyzeProject" /\ Pending
    /\ cursor = Len(sessionsToAnalyze)
    /\ result' = Returned(ProjectUsage(args.projectId, args.projectName, acc))
    /\ UNCHANGED << streamVars, fn, entries, args, cursor, acc >>

NextProject ==
    \/ SessionStep
    \/ ProjectReturn

SpecProject == InitProject /\ [][NextProject]_vars


\* ---------------------------------------------------------------- watchMode

\* The number of refresh() calls followed.
MaxRefreshes == 4

\* watchMode called: its first statement after the banner is
\* `await refresh()`, the call numbered 1.  `cursor` counts the calls of
\* refresh made so far, `acc` holds the calls suspended at
\* `await analyzeProject(...)`, `entries` lists the calls in the order they
\* cleared the screen and printed, and `args` is the state of the interval
\* timer and of the process.
InitWatch ==
    /\ StreamIdle
    /\ fn = "watchMode"
    /\ args = [ interval |-> "none", exited |-> FALSE ]
    /\ cursor = 1
    /\ \E found \in BOOLEAN : acc = IF found THEN { 1 } ELSE {}
    /\ entries = <<>>
    /\ result = NoResult

\* The first refresh() has settled: setInterval(refresh, POLL_INTERVAL) and
\* the SIGINT handler are installed.
SetInterval ==
    /\ fn = "watchMode" /\ ~args.exited
    /\ args.interval = "none"
    /\ 1 \notin acc
    /\ args' = [ args EXCEPT !.interval = "set" ]
    /\ UNCHANGED << streamVars, fn, entries, cursor, acc, result >>

\* The interval timer fires and calls refresh(): findProject returns the
\* project and the call suspends at its await, or returns nothing and the
\* call is over.  Nothing in refresh looks at the calls still suspended.
Tick ==
    /\ fn = "watchMode" /\ ~args.exited
    /\ args.interval = "set"
    /\ cursor < MaxRefreshes
    /\ cursor' = cursor + 1
    /\ \E found \in BOOLEAN :
         acc' = IF found THEN acc \cup { cursor + 1 } ELSE acc
    /\ UNCHANGED << streamVars, fn, entries, args, result >>

\* analyzeProject settles for one suspended call, which clears the screen
\* and prints the table and the summary in one synchronous run.
RefreshPrint(r) ==
    /\ fn = "watchMode" /\ ~args.exited
    /\ r \in acc
    /\ acc' = acc \ { r }
    /\ entries' = Append(entries, r)
    /\ UNCHANGED << streamVars, fn, args, cursor, result >>

\* SIGINT after the handler is installed: clearInterval and process.exit(0).
Sigint ==
    /\ fn = "watchMode" /\ ~args.exited
    /\ args.interval = "set"
    /\ args' = [ interval |-> "cleared", exited |-> TRUE ]
    /\ acc' = {}
    /\ UNCHANGED << streamVars, fn, entries, cursor, result >>

NextWatch ==
    \/ SetInterval
    \/ Tick
    \/ \E r \in 1..MaxRefreshes : RefreshPrint(r)
    \/ Sigint

SpecWatch == InitWatch /\ [][NextWatch]_vars


\* ------------------------------------ encodeProjectPath, decodeProjectPath

MaxPathLen == 4

\* A string is the sequence of its characters.
Chars == { "/", "-", "a" }

Strings == UNION { [ 1..n -> Chars ] : n \in 0..MaxPathLen }

\* Absolute paths: the strings that start with '/'.
AbsolutePaths == { s \in Strings : s # <<>> /\ s[1] = "/" }

\* String.prototype.replace with a global pattern for one character.
ReplaceAll(s, from, to) == [ i \in DOMAIN s |-> IF s[i] = from THEN to ELSE s[i] ]

\* path.replace(/\//g, '-')
encodeProjectPath(path) == ReplaceAll(path, "/", "-")

\* projectId.startsWith('-') ? projectId.replace(/-/g, '/') : projectId
decodeProjectPath(projectId) ==
    IF projectId # <<>> /\ projectId[1] = "-"
    THEN ReplaceAll(projectId, "-", "/")
    ELSE projectId

\* Two absolute paths are about to be encoded.
InitPath ==
    /\ StreamIdle
    /\ fn = "encodeProjectPath"
    /\ entries = <<>>
    /\ args \in [ 1..2 -> AbsolutePaths ]
    /\ cursor = 0
    /\ acc = <<>>
    /\ result = NoResult

\* encodeProjectPath is called on each path.
EncodeCall ==
    /\ fn = "encodeProjectPath" /\ Pending
    /\ cursor = 0
    /\ acc' = [ i \in 1..2 |-> encodeProjectPath(args[i]) ]
    /\ cursor' = 1
    /\ UNCHANGED << streamVars, fn, entries, args, result >>

\* decodeProjectPath is called on the project id of the first path.
DecodeCall ==
    /\ fn = "encodeProjectPath" /\ Pending
    /\ cursor = 1
    /\ result' = Returned(decodeProjectPath(acc[1]))
    /\ UNCHANGED << streamVars, fn, entries, args, cursor, acc >>

NextPath ==
    \/ EncodeCall
    \/ DecodeCall

SpecPath == InitPath /\ [][NextPath]_vars


\* -------------------------------------------------------------- properties
\* C1: for a file made of valid JSON-object lines and malformed lines, under
\* the default options with an onError callback, a fully drained streamJsonl
\* has yielded exactly the object lines' records and has invoked onError
\* exactly once per malformed line, with that line's 1-based number.
C1_Case ==
    /\ Drained
    /\ opts.skipMalformed /\ opts.onError /\ opts.filterTypes = {}
    /\ \A i \in DOMAIN file : IsObjectLine(file[i]) \/ IsMalformed(file[i])

C1_Resilience ==
    C1_Case =>
        /\ Len(yielded) = Cardinality(ObjectAt)
        /\ YieldedLines = ObjectAt
        /\ \A i \in DOMAIN yielded :
              yielded[i].data = JSONParse(Trim(file[yielded[i].line]))
        /\ Len(errors) = Cardinality(MalformedAt)
        /\ ErrorLines = MalformedAt
        /\ stats.parsedLines = Cardinality(ObjectAt)

C1_Witness ==
    /\ C1_Case
    /\ Len(file) = 2
    /\ IsMalformed(file[1]) /\ IsObjectLine(file[2])
    /\ Len(yielded) = 1 /\ Len(errors) = 1
\* C2: the ParserStats of a fully drained streamJsonl satisfy
\* parsedLines + skippedLines + (blank or comment lines) = totalLines, for
\* every file and every option set.
C2_Conservation ==
    Drained =>
        stats.parsedLines + stats.skippedLines + Cardinality(BlankOrCommentAt)
            = stats.totalLines

\* C3: with skipMalformed = false, streamJsonl fails on the first malformed
\* line: once the loop has taken that line the generator has thrown, and no
\* later line has been taken.
FirstMalformed == CHOOSE i \in MalformedAt : \A j \in MalformedAt : i <= j

C3_StrictMode ==
    (~opts.skipMalformed /\ MalformedAt # {} /\ lineNumber >= FirstMalformed) =>
        /\ pc = "thrown"
        /\ lineNumber = FirstMalformed
        /\ \A i \in DOMAIN yielded : yielded[i].line < FirstMalformed

\* C4: with a non-empty filterTypes, every record streamJsonl yields has a
\* type that is a member of filterTypes; in particular no JSON object
\* without a type is yielded (stated here for the JSON-object records).
C4_FilterMembership ==
    opts.filterTypes # {} =>
        \A i \in DOMAIN yielded :
            yielded[i].data.kind = "object" =>
                yielded[i].data.type \in opts.filterTypes

\* C5: when the generator has finished (full drain, early return, or an
\* error thrown out of the loop), every stream opened for the call is
\* released: the file read stream and, for a gzip source, the gunzip stream.
Finished == pc \in { "done", "returned", "thrown" }

C5_Released ==
    Finished => fileStream = "closed" /\ gunzip # "open" /\ rl = "closed"

\* C6: a fully drained streamJsonl with an onProgress callback has invoked
\* it with bytesRead = totalBytes exactly once, and that invocation was the
\* last one.
C6_Completion ==
    (Drained /\ opts.onProgress) =>
        completeCalls = 1 /\ lastProgress = getFileSize(diskSize)

\* C7: records are yielded in strict file order: the yielded sequence is an
\* order-preserving subsequence of the file's lines, each record the parse
\* of its line, and no line yields twice.
C7_FileOrder ==
    /\ \A i, j \in DOMAIN yielded : i < j => yielded[i].line < yielded[j].line
    /\ \A i \in DOMAIN yielded :
          /\ yielded[i].line \in 1..lineNumber
          /\ yielded[i].data = JSONParse(Trim(file[yielded[i].line]))

C7_Witness ==
    /\ Len(yielded) = 2
    /\ yielded[1].data.kind = "object" /\ yielded[2].data.kind = "object"
    /\ yielded[1].data # yielded[2].data
    /\ pc = "yield"

\* C8: in the ParserStats of a fully drained streamJsonl, skippedLines is the
\* number of non-blank lines that failed to parse; blank lines and comment
\* lines never increment it.
FailedAt ==
    { i \in DOMAIN file :
        ~IsBlankOrComment(file[i])
        /\ parseJsonlLine(file[i], i, FALSE).value = JsNull }

C8_SkippedOnlyFailed ==
    Drained => stats.skippedLines = Cardinality(FailedAt)

\* C9: a line of valid JSON that is no JSON object is handled like malformed
\* JSON: once taken, no record has been yielded for it and onError (when
\* supplied) has been invoked with its line number.
C9_NonObjectRejected ==
    \A i \in NonObjectAt :
        i <= lineNumber =>
            /\ i \notin YieldedLines
            /\ opts.onError => i \in ErrorLines

\* C10: supplying or omitting onError changes only the callback invocations:
\* run over the same file with the same other options, the loop yields the
\* same records and ends with the same counters, every malformed line adds
\* one to skippedLines without a callback, and the generator's locals and
\* returned stats are those of that run.
WithOnError == Drain(InitialLocals, file, [ opts EXCEPT !.onError = TRUE ])
WithoutOnError == Drain(InitialLocals, file, [ opts EXCEPT !.onError = FALSE ])
SkippedIn(lines) ==
    Drain(InitialLocals, lines, [ opts EXCEPT !.onError = FALSE ]).skippedLines

AtStart == pc = "loop" /\ lineNumber = 0 /\ delivered = 0

C10_OnErrorTransparent ==
    /\ AtStart =>
          /\ WithOnError.yielded = WithoutOnError.yielded
          /\ WithOnError.lineNumber = WithoutOnError.lineNumber
          /\ WithOnError.parsedLines = WithoutOnError.parsedLines
          /\ WithOnError.skippedLines = WithoutOnError.skippedLines
          /\ WithoutOnError.errors = <<>>
          /\ \A i \in MalformedAt :
                SkippedIn(SubSeq(file, 1, i))
                    = SkippedIn(SubSeq(file, 1, i - 1)) + 1
    /\ Locals = Drain(InitialLocals, SubSeq(file, 1, lineNumber), opts)
    /\ Drained =>
          /\ lineNumber = Len(file)
          /\ stats.totalLines = lineNumber
          /\ stats.parsedLines = parsedLines
          /\ stats.skippedLines = skippedLines

C10_Witness ==
    /\ Drained
    /\ ~opts.onError
    /\ Cardinality(MalformedAt) = 2
    /\ stats.skippedLines = 2
    /\ errors = <<>>
\* C11: a blank line or a line whose first non-blank character is '#' is
\* treated as absent by parseJsonlLine, streamJsonl, streamJsonlWithMeta and
\* parseJsonlString: no record and no onError call come from it, and the
\* records and the number of errors are those of the file without it.
Strip(lines) == SelectSeq(lines, LAMBDA l : ~IsBlankOrComment(l))

DataOf(items) == [ i \in DOMAIN items |-> items[i].data ]

LinesOfItems(items) == { items[i].lineNumber : i \in DOMAIN items }
LinesOfRecords(items) == { items[i].line : i \in DOMAIN items }

C11_BlankAbsent ==
    /\ \A i \in BlankOrCommentAt :
          /\ parseJsonlLine(file[i], i, TRUE) = [ value |-> JsNull, errors |-> <<>> ]
          /\ i <= lineNumber => i \notin YieldedLines /\ i \notin ErrorLines
    /\ AtStart =>
          LET all == Drain(InitialLocals, file, opts)
              kept == Drain(InitialLocals, Strip(file), opts)
              metaAll == DrainMeta(InitialMetaLocals, file, opts)
              metaKept == DrainMeta(InitialMetaLocals, Strip(file), opts)
              strAll == parseJsonlString(file, opts)
              strKept == parseJsonlString(Strip(file), opts)
          IN  /\ DataOf(all.yielded) = DataOf(kept.yielded)
              /\ Len(all.errors) = Len(kept.errors)
              /\ all.lineNumber = Len(file)
              /\ DataOf(metaAll.yielded) = DataOf(metaKept.yielded)
              /\ Len(metaAll.errors) = Len(metaKept.errors)
              /\ metaAll.thrown = metaKept.thrown
              /\ LinesOfItems(metaAll.yielded) \cap BlankOrCommentAt = {}
              /\ LinesOfItems(metaAll.errors) \cap BlankOrCommentAt = {}
              /\ DataOf(strAll.yielded) = DataOf(strKept.yielded)
              /\ Len(strAll.errors) = Len(strKept.errors)
              /\ LinesOfRecords(strAll.yielded) \cap BlankOrCommentAt = {}
              /\ LinesOfItems(strAll.errors) \cap BlankOrCommentAt = {}

C11_Witness ==
    /\ pc = "yield"
    /\ Len(file) = 2
    /\ file[1] = Line(1, "#c")
    /\ YieldedLines = { 2 }
    /\ errors = <<>>
\* C12: over the onProgress invocations of one streamJsonl call, bytesRead
\* never decreases from one invocation to the next, and when the call has
\* ended after draining the file the last invocation had
\* bytesRead = totalBytes.
C12_Progress ==
    [][ /\ lastProgress' >= lastProgress
        /\ (Drained' /\ lastProgress' # -1) =>
              lastProgress' = getFileSize(diskSize') ]_vars
\* ------------------------------------------ properties of the aggregation

ReturnedBy(f) == fn = f /\ result.status = "returned"

\* The entries that carry session id `id`, and those that carry none.
EntriesOf(id) ==
    { i \in DOMAIN entries :
        Has(entries[i], "session_id") /\ entries[i].session_id = id }

Unidentified == { i \in DOMAIN entries : ~Has(entries[i], "session_id") }

PresentIds == { entries[i].session_id : i \in DOMAIN entries \ Unidentified }

ExpectedIds ==
    PresentIds \cup (IF Unidentified = {} THEN {} ELSE { "unknown" })

\* The entries a summary stands for.
Group(id) == EntriesOf(id) \cup (IF id = "unknown" THEN Unidentified ELSE {})

Summaries == result.value

\* C13: extractSessionSummaries returns exactly one summary per distinct
\* session_id of the entries, every entry is counted in the summary of its
\* session_id, and the entries without session_id are counted in a single
\* summary whose sessionId is "unknown".
C13_OnePerSession ==
    ReturnedBy("extractSessionSummaries") =>
        /\ { Summaries[i].sessionId : i \in DOMAIN Summaries } = ExpectedIds
        /\ Len(Summaries) = Cardinality(ExpectedIds)
        /\ \A i \in DOMAIN Summaries :
              \A t \in MessageTypes :
                 Summaries[i].messageCount[t] =
                    Cardinality({ j \in Group(Summaries[i].sessionId) :
                                    entries[j].type = t })

C13_Witness ==
    /\ ReturnedBy("extractSessionSummaries")
    /\ Len(entries) = 3
    /\ Cardinality(EntriesOf("s1")) = 2
    /\ Cardinality(Unidentified) = 1
    /\ Len(Summaries) = 2

Min(S) == CHOOSE x \in S : \A y \in S : x <= y

Max(S) == CHOOSE x \in S : \A y \in S : x >= y

TimestampsOf(id) ==
    { entries[j].timestamp :
        j \in { k \in Group(id) : Has(entries[k], "timestamp") } }

\* C14: in every summary extractSessionSummaries returns, startTime is the
\* earliest and endTime the latest of the timestamps of the session's
\* entries, in whatever order the entries come and whether or not the
\* first of them has a timestamp.
C14_Earliest_Latest ==
    ReturnedBy("extractSessionSummaries") =>
        \A i \in DOMAIN Summaries :
           LET stamps == TimestampsOf(Summaries[i].sessionId) IN
           stamps # {} =>
              /\ Summaries[i].startTime = Min(stamps)
              /\ Has(Summaries[i], "endTime")
              /\ Summaries[i].endTime = Max(stamps)

\* C15: the list extractSessionSummaries returns is ascending by startTime.
C15_SortedByStart ==
    ReturnedBy("extractSessionSummaries") =>
        \A i \in 1..(Len(Summaries) - 1) :
           Summaries[i].startTime <= Summaries[i + 1].startTime

C15_Witness ==
    /\ ReturnedBy("extractSessionSummaries")
    /\ Len(acc) >= 2
    /\ \E i \in 1..(Len(acc) - 1) : acc[i].startTime > acc[i + 1].startTime

\* The sum over `list` of usage field `field`, an entry without usage or
\* without the field counting 0.
RECURSIVE SumField(_, _)
SumField(list, field) ==
    IF list = <<>> THEN 0
    ELSE (IF Has(Head(list), "usage") /\ Has(Head(list).usage, field)
          THEN Head(list).usage[field] ELSE 0)
         + SumField(Tail(list), field)

\* C16: calculateTokenTotals returns the sums of the four usage fields, an
\* absent usage or field counting 0, and total = input + output; the five
\* example entries give input 300, output 150, cacheRead 50, total 450.
C16_TokenSums ==
    ReturnedBy("calculateTokenTotals") =>
        /\ result.value.input = SumField(entries, "input_tokens")
        /\ result.value.output = SumField(entries, "output_tokens")
        /\ result.value.cacheCreation =
              SumField(entries, "cache_creation_input_tokens")
        /\ result.value.cacheRead = SumField(entries, "cache_read_input_tokens")
        /\ result.value.total = result.value.input + result.value.output
        /\ entries = ExampleLog =>
              /\ result.value.input = 300
              /\ result.value.output = 150
              /\ result.value.cacheRead = 50
              /\ result.value.total = 450

C16_Witness ==
    /\ ReturnedBy("calculateTokenTotals")
    /\ entries = ExampleLog
    /\ result.value.total = 450

\* C17: an empty input is no error: calculateTokenTotals returns zero
\* tokens and zero costs, extractSessionSummaries an empty list, and
\* analyzeLogFile of an empty file zero inputTokens, outputTokens and
\* messageCount; each of them returns.
C17_EmptyInput ==
    /\ (entries = <<>> /\ fn \in AggFunctions /\ Pending) =>
          /\ cursor = 0
          /\ ENABLED (TotalsReturn \/ SessionsReturn \/ AnalyzeReturn)
    /\ (entries = <<>> /\ ReturnedBy("calculateTokenTotals")) =>
          result.value =
             [ input |-> 0, output |-> 0, cacheCreation |-> 0, cacheRead |-> 0,
               total |-> 0,
               costEstimate |-> [ inputCost |-> 0, outputCost |-> 0,
                                  totalCost |-> 0 ] ]
    /\ (entries = <<>> /\ ReturnedBy("extractSessionSummaries")) =>
          result.value = <<>>
    /\ (entries = <<>> /\ ReturnedBy("analyzeLogFile")) =>
          /\ readJsonl(<<>>, DEFAULT_OPTIONS) = entries
          /\ result.value.inputTokens = 0
          /\ result.value.outputTokens = 0
          /\ result.value.messageCount = 0

C17_Witness ==
    /\ entries = <<>>
    /\ ReturnedBy("analyzeLogFile")
    /\ result.value.sessionId = LogFile

\* Amounts of money are in units of 10^-7 dollar.
Dollars(n) == n * 10000000

\* input x $3 + output x $15 + cacheRead x $0.30, per million tokens.
Price(input, output, cacheRead) ==
    (input * 30) + (output * 150) + (cacheRead * 3)

\* `list` with the cache-creation counts changed.
RECURSIVE OtherCacheCreation(_)
OtherCacheCreation(list) ==
    IF list = <<>> THEN <<>>
    ELSE << IF Has(Head(list), "usage")
            THEN [ Head(list) EXCEPT !.usage =
                     With(@, "cache_creation_input_tokens",
                          OrZero(@, "cache_creation_input_tokens") + 1) ]
            ELSE Head(list) >>
         \o OtherCacheCreation(Tail(list))

\* C18: every cost estimate (calculateCost, calculateTokenTotals,
\* calculateTokenTotalsStream, the per-session costs of
\* extractSessionSummaries) is input x $3 + output x $15 + cacheRead x $0.30
\* per million tokens, totalCost = inputCost + outputCost + cacheReadCost,
\* and it does not depend on the cache-creation count; 1M/1M/0 costs 18,
\* 1M/1M/1M costs 18.30 and 0/0/0 costs 0.
C18_CostFormula ==
    /\ ReturnedBy("calculateCost") =>
          /\ result.value =
                Price(args[1], args[2], IF Len(args) = 3 THEN args[3] ELSE 0)
          /\ args = << 1000000, 1000000, 0 >> => result.value = Dollars(18)
          /\ args = << 1000000, 1000000 >> => result.value = Dollars(18)
          /\ args = << 1000000, 1000000, 1000000 >> =>
                result.value = Dollars(18) + 3000000
          /\ args = << 0, 0, 0 >> => result.value = 0
    /\ ReturnedBy("calculateTokenTotals") =>
          LET input == SumField(entries, "input_tokens")
              output == SumField(entries, "output_tokens")
              cacheRead == SumField(entries, "cache_read_input_tokens")
              cost == result.value.costEstimate
          IN  /\ cost.inputCost = input * 30
              /\ cost.outputCost = output * 150
              /\ cost.totalCost = cost.inputCost + cost.outputCost + (cacheRead * 3)
              /\ cost.totalCost = Price(input, output, cacheRead)
              /\ calculateTokenTotalsStream(entries).costEstimate = cost
              /\ calculateTokenTotals(OtherCacheCreation(entries)).costEstimate = cost
              /\ calculateTokenTotalsStream(OtherCacheCreation(entries)).costEstimate
                    = cost
    /\ ReturnedBy("extractSessionSummaries") =>
          \A i \in DOMAIN Summaries :
             LET usage == Summaries[i].tokenUsage IN
             /\ usage.costEstimate.inputCost = usage.input * 30
             /\ usage.costEstimate.outputCost = usage.output * 150
             /\ usage.costEstimate.totalCost =
                   Price(usage.input, usage.output, usage.cacheRead)
    /\ ReturnedBy("analyzeLogFile") =>
          result.value.costUSD =
             Price(SumField(entries, "input_tokens"),
                   SumField(entries, "output_tokens"),
                   SumField(entries, "cache_read_input_tokens"))

C18_Witness ==
    /\ ReturnedBy("calculateTokenTotals")
    /\ result.value.cacheRead = 50
    /\ result.value.cacheCreation = 7
    /\ result.value.costEstimate.totalCost = Price(300, 150, 50)

\* C19: calculateCost called with a negative token count fails with
\* InvalidArgument and returns no cost.
C19_RejectsNegative ==
    (fn = "calculateCost" /\ ~Pending /\ \E i \in DOMAIN args : args[i] < 0) =>
        /\ result.status = "threw"
        /\ result.error = "InvalidArgument"
\* ----------------------------------------------- properties of gzip input

UncompressedPath == << "log", "jsonl" >>

\* streamJsonl, drained, on the uncompressed file of the same content with
\* the same options.
UncompressedRun ==
    Drain(InitialLocals,
          createInputStream(UncompressedPath,
                            Stored(UncompressedPath, disk.content)),
          opts)

IsPrefix(a, b) == Len(a) <= Len(b) /\ SubSeq(b, 1, Len(a)) = a

ErrorLineNumbers(errs) == [ i \in DOMAIN errs |-> errs[i].lineNumber ]

\* C20: streaming the gzip-compressed file of a content (path ending in .gz
\* or .gzip) and streaming its uncompressed file with the same options
\* yield the same sequence of records and the same onError line numbers.
C20_GzipSameAsPlain ==
    /\ IsPrefix(yielded, UncompressedRun.yielded)
    /\ IsPrefix(ErrorLineNumbers(errors), ErrorLineNumbers(UncompressedRun.errors))
    /\ Drained =>
          /\ yielded = UncompressedRun.yielded
          /\ ErrorLineNumbers(errors) = ErrorLineNumbers(UncompressedRun.errors)

C20_Witness ==
    /\ Drained
    /\ filePath = << "log", "jsonl", "gzip" >>
    /\ disk.gzip
    /\ Len(yielded) = 1
    /\ Len(errors) = 1
\* --------------------------------------- properties of streamJsonlWithMeta

\* The consumer has thrown no error into the generator: no line has both
\* an item and an error.
NoConsumerThrow ==
    \A i \in DOMAIN errors : \A j \in DOMAIN yielded :
       errors[i].lineNumber # yielded[j].lineNumber

\* C21: every item streamJsonlWithMeta yields carries the 1-based number of
\* the physical line it was parsed from, the numbers are strictly
\* increasing, and raw is the text of that line.
C21_MetaLineAndRaw ==
    /\ \A i \in DOMAIN yielded :
          /\ yielded[i].lineNumber \in 1..lineNumber
          /\ JSONParse(Trim(file[yielded[i].lineNumber])) = yielded[i].data
          /\ Line(0, yielded[i].raw) = file[yielded[i].lineNumber]
    /\ \A i \in 1..(Len(yielded) - 1) :
          yielded[i].lineNumber < yielded[i + 1].lineNumber
\* C25: for the same file and options streamJsonl and streamJsonlWithMeta
\* yield the same sequence of records and invoke onError for the same line
\* numbers.
C25_MetaSameAsPlain ==
    (pc = "done" /\ NoConsumerThrow) =>
        LET plain == Drain(InitialLocals, file, opts) IN
        /\ DataOf(yielded) = DataOf(plain.yielded)
        /\ ErrorLineNumbers(errors) = ErrorLineNumbers(plain.errors)
\* C26: a fully drained streamJsonl call with an onError callback has
\* invoked onError as many times as the skippedLines of its ParserStats.
C26_ErrorsEqualSkipped ==
    (Drained /\ opts.onError) => Len(errors) = stats.skippedLines
\* ------------------------------------ more properties of the aggregation

Identified == DOMAIN entries \ Unidentified

\* C23: analyzeLogFile reports the sums of the four usage fields over the
\* entries, totalTokens = inputTokens + outputTokens, messageCount = the
\* number of entries of type user or assistant, and the session_id of the
\* first entry that carries one.
C23_AnalyzeLogFile ==
    ReturnedBy("analyzeLogFile") =>
        /\ result.value.inputTokens = SumField(entries, "input_tokens")
        /\ result.value.outputTokens = SumField(entries, "output_tokens")
        /\ result.value.cacheCreation =
              SumField(entries, "cache_creation_input_tokens")
        /\ result.value.cacheRead = SumField(entries, "cache_read_input_tokens")
        /\ result.value.totalTokens =
              result.value.inputTokens + result.value.outputTokens
        /\ result.value.messageCount =
              Cardinality({ i \in DOMAIN entries :
                              /\ Has(entries[i], "type")
                              /\ entries[i].type \in { "user", "assistant" } })
        /\ Identified # {} =>
              result.value.sessionId = entries[Min(Identified)].session_id

C23_Witness ==
    /\ ReturnedBy("analyzeLogFile")
    /\ Len(entries) = 3
    /\ ~Has(entries[1], "session_id")
    /\ Has(entries[2], "session_id") /\ entries[2].session_id = "s2"
    /\ Has(entries[3], "session_id") /\ entries[3].session_id = "s1"
    /\ result.value.sessionId = "s2"
    /\ result.value.inputTokens > 0
    /\ result.value.messageCount = 3

RECURSIVE SumUsage(_, _)
SumUsage(summaries, field) ==
    IF summaries = <<>> THEN 0
    ELSE Head(summaries).tokenUsage[field] + SumUsage(Tail(summaries), field)

\* C27: the sums of input, output, cacheCreation and cacheRead over the
\* summaries extractSessionSummaries returns are the flat totals
\* calculateTokenTotals returns for the same entries, and every summary's
\* total is its input + output.
C27_SessionsSumToTotals ==
    ReturnedBy("extractSessionSummaries") =>
        LET flat == calculateTokenTotals(entries) IN
        /\ SumUsage(Summaries, "input") = flat.input
        /\ SumUsage(Summaries, "output") = flat.output
        /\ SumUsage(Summaries, "cacheCreation") = flat.cacheCreation
        /\ SumUsage(Summaries, "cacheRead") = flat.cacheRead
        /\ \A i \in DOMAIN Summaries :
              Summaries[i].tokenUsage.total =
                 Summaries[i].tokenUsage.input + Summaries[i].tokenUsage.output

C27_Witness ==
    /\ ReturnedBy("extractSessionSummaries")
    /\ Len(Summaries) = 2
    /\ \A i \in DOMAIN Summaries : Summaries[i].tokenUsage.input > 0
    /\ SumUsage(Summaries, "input") = 300
    /\ SumUsage(Summaries, "cacheRead") = 50
\* C24: calculateTokenTotalsStream(file, options) returns what
\* calculateTokenTotals(readJsonl(file, options)) returns, in every token
\* and cost field.
C24_StreamSameAsMaterialized ==
    ReturnedBy("calculateTokenTotalsStream") =>
        result.value = calculateTokenTotals(readJsonl(file, opts))

C24_Witness ==
    /\ ReturnedBy("calculateTokenTotalsStream")
    /\ Len(file) = 2
    /\ cursor = 2
    /\ result.value.input = 300
    /\ result.value.cacheRead = 50
    /\ result.value.costEstimate.totalCost = Price(300, 150, 50)
\* C22: formatSessionLabel returns a label starting with "Today" exactly
\* when the timestamp's local calendar date is now's, with "Yesterday"
\* exactly when it is one calendar day earlier, also across days that are
\* not 24 hours long, and the date form in every other case.
C22_LabelByCalendarDay ==
    ReturnedBy("formatSessionLabel") =>
        LET sessionDay == DayOf(acc, args[1])
            nowDay == DayOf(acc, args[2])
        IN  /\ result.value.prefix = "Today" <=> sessionDay = nowDay
            /\ result.value.prefix = "Yesterday" <=> sessionDay = nowDay - 1
            /\ result.value.prefix = "date" <=>
                  sessionDay \notin { nowDay, nowDay - 1 }

\* The sessions among the first `limit` whose log file can be analyzed.
Analyzable == SelectSeq(SubSeq(entries, 1, Min({ args.limit, Len(entries) })),
                        LAMBDA s : s.readable)

RECURSIVE SumOver(_, _)
SumOver(usages, field) ==
    IF usages = <<>> THEN 0
    ELSE Head(usages)[field] + SumOver(Tail(usages), field)

\* C28: analyzeProject returns one SessionUsage for each of the first
\* `limit` sessions whose log file can be analyzed, in input order and none
\* for the others, and its totals are the sums, and sessionCount the count,
\* over the usages it returns.
C28_LimitAndIsolation ==
    (fn = "analyzeProject" /\ result.status = "returned") =>
        LET usages == result.value.sessions
            totals == result.value.totals
        IN  /\ Len(usages) = Len(Analyzable)
            /\ \A i \in DOMAIN usages :
                 \E now \in Clock :
                    LET expected == analyzeLogFile(Analyzable[i], now)
                    IN  usages[i] =
                          IF Has(Analyzable[i], "timestamp")
                          THEN With(expected, "timestamp", Analyzable[i].timestamp)
                          ELSE expected
            /\ totals.sessionCount = Len(usages)
            /\ \A f \in { "inputTokens", "outputTokens", "cacheCreation",
                          "cacheRead", "totalTokens", "costUSD", "messageCount" } :
                 totals[f] = SumOver(usages, f)

\* Three sessions, limit 2, the first unreadable: one usage comes back.
C28_Witness ==
    /\ fn = "analyzeProject" /\ result.status = "returned"
    /\ Len(entries) = 3 /\ args.limit = 2
    /\ ~entries[1].readable /\ entries[2].readable /\ entries[3].readable
    /\ Len(result.value.sessions) = 1
    /\ result.value.totals.inputTokens = 300

\* C29: in watch mode at most one call of refresh is suspended at its await
\* at any time, and the calls print in the order they were started.
C29_OneRefreshAtATime ==
    fn = "watchMode" =>
        /\ Cardinality(acc) <= 1
        /\ \A i, j \in DOMAIN entries : i < j => entries[i] < entries[j]

\* C30: decoding the project id of an absolute path gives the path back,
\* and the project ids of two distinct absolute paths are distinct.
C30_RoundTrip ==
    fn = "encodeProjectPath" =>
        /\ cursor = 1 => (args[1] # args[2] => acc[1] # acc[2])
        /\ result.status = "returned" => result.value = args[1]

====
